---- MODULE Spec2Model ----
(***************************************************************************)
(* Model of App.py: the amortization engine                                *)
(* (calculate_amortization_schedule), the sqlite credential store          *)
(* (register_user / authenticate_user) and the Streamlit session gate.     *)
(*                                                                         *)
(* Numbers.  The engine computes with Python floats.  A float is modelled  *)
(* as a decimal floating-point number [m, e] (value m * 10^e) whose        *)
(* mantissa has 8 significant digits, normalised so that                   *)
(* MantMin <= |m| < MantMax or m = 0.  Every arithmetic operation returns  *)
(* the exact result rounded to the nearest representable number, ties to   *)
(* even, as IEEE-754 arithmetic does; the mantissa is narrower than        *)
(* binary64's 53 bits and the exponent is unbounded.  x ** n is computed   *)
(* by repeated squaring, each product rounded.                             *)
(*                                                                         *)
(* Inputs.  The loans are those on which the 8-digit arithmetic and the    *)
(* program's binary64 arithmetic lead to the same outcome for every        *)
(* property stated below: the same number of records, the same final       *)
(* balance being zero or not, the same balances rising or not, and,        *)
(* on the everyday loans, the same cents in every record.                  *)
(***************************************************************************)
EXTENDS Integers, Sequences, FiniteSets, TLC

\* ------------------------------------------------------------------------
\* Decimal floating point
\* ------------------------------------------------------------------------

MantMax == 10^8
MantMin == 10^7
HalfBase == 10^4

F(m, e) == [m |-> m, e |-> e]
Zero == F(0, 0)

Abs(n) == IF n < 0 THEN -n ELSE n
Sign(n) == IF n < 0 THEN -1 ELSE 1

\* The float nearest to s * (H + L/D) * 10^e, where s is 1 or -1, H >= 0 and
\* 0 <= L < D: digits move between H and the remainder L/D until H has the
\* mantissa's width, then the remainder decides the rounding (ties to even).
RECURSIVE Norm(_, _, _, _, _)
Norm(s, H, L, D, e) ==
    IF H = 0 /\ L = 0 THEN Zero
    ELSE IF H >= MantMax THEN Norm(s, H \div 10, (H % 10) * D + L, D * 10, e + 1)
    ELSE IF H < MantMin THEN Norm(s, H * 10 + (L * 10) \div D, (L * 10) % D, D, e - 1)
    ELSE LET up == 2 * L > D \/ (2 * L = D /\ H % 2 = 1)
             H1 == IF up THEN H + 1 ELSE H
         IN  IF H1 = MantMax THEN F(s * MantMin, e + 1) ELSE F(s * H1, e)

\* float(n) for a Python int n
FromInt(n) == Norm(Sign(n), Abs(n), 0, 1, 0)

\* the float written with two decimals, c hundredths (99.99 is FromCents(9999))
FromCents(c) == Norm(Sign(c), Abs(c), 0, 1, -2)

One == FromInt(1)

Neg(a) == F(-a.m, a.e)

RECURSIVE Pow10(_)
Pow10(k) == IF k = 0 THEN 1 ELSE 10 * Pow10(k - 1)

\* a + b with |a|'s exponent >= |b|'s, both non-zero
AddAligned(a, b) ==
    LET s == a.e - b.e
    IN  IF s >= 10 THEN a
        ELSE IF s = 0 THEN Norm(Sign(a.m + b.m), Abs(a.m + b.m), 0, 1, a.e)
        ELSE LET D  == Pow10(s - 1)
                 H0 == Abs(a.m) * 10
                 bq == Abs(b.m) \div D
                 br == Abs(b.m) % D
             IN  IF Sign(a.m) = Sign(b.m) THEN Norm(Sign(a.m), H0 + bq, br, D, a.e - 1)
                 ELSE IF br = 0 THEN Norm(Sign(a.m), H0 - bq, 0, D, a.e - 1)
                 ELSE Norm(Sign(a.m), H0 - bq - 1, D - br, D, a.e - 1)

\* a + b
Add(a, b) ==
    IF a.m = 0 THEN b
    ELSE IF b.m = 0 THEN a
    ELSE IF a.e >= b.e THEN AddAligned(a, b) ELSE AddAligned(b, a)

\* a - b
Sub(a, b) == Add(a, Neg(b))

\* a * b: the 16-digit product from half-width limbs, then rounded; the
\* product's low 8 digits are the remainder, so the exponent rises by 8
Mul(a, b) ==
    IF a.m = 0 \/ b.m = 0 THEN Zero
    ELSE LET x   == Abs(a.m)
             y   == Abs(b.m)
             x1  == x \div HalfBase
             x0  == x % HalfBase
             y1  == y \div HalfBase
             y0  == y % HalfBase
             c1  == x1 * y0 + x0 * y1
             low == (c1 % HalfBase) * HalfBase + x0 * y0
         IN  Norm(Sign(a.m) * Sign(b.m),
                  x1 * y1 + c1 \div HalfBase + low \div MantMax,
                  low % MantMax, MantMax, a.e + b.e + 8)

\* a / b for b # 0 (the caller raises ZeroDivisionError when b = 0)
Div(a, b) ==
    IF a.m = 0 THEN Zero
    ELSE Norm(Sign(a.m) * Sign(b.m), Abs(a.m) \div Abs(b.m), Abs(a.m) % Abs(b.m),
              Abs(b.m), a.e - b.e)

\* a < b
Less(a, b) == Sub(a, b).m < 0

\* Python's min(a, b): b if b < a, else a
Min(a, b) == IF Less(b, a) THEN b ELSE a

\* Python's max(a, b): b if b > a, else a
Max(a, b) == IF Less(a, b) THEN b ELSE a

\* x ** n for a float x > 0 and an int n
RECURSIVE PowInt(_, _)
PowInt(x, n) ==
    IF n < 0 THEN Div(One, PowInt(x, -n))
    ELSE IF n = 0 THEN One
    ELSE IF n % 2 = 0 THEN LET h == PowInt(x, n \div 2) IN Mul(h, h)
    ELSE Mul(PowInt(x, n - 1), x)

\* round(x, 2): the float with two decimals nearest to x, ties to even
Round2(x) ==
    IF x.e >= -2 THEN x
    ELSE LET k == -2 - x.e
         IN  IF k >= 9 THEN Zero
             ELSE LET D == Pow10(k)
                      q == Abs(x.m) \div D
                      r == Abs(x.m) % D
                      up == 2 * r > D \/ (2 * r = D /\ q % 2 = 1)
                  IN  FromCents(Sign(x.m) * (IF up THEN q + 1 ELSE q))

\* ------------------------------------------------------------------------
\* Calendar dates (datetime.date, timedelta, strftime)
\* ------------------------------------------------------------------------

Date(y, m, d) == [year |-> y, month |-> m, day |-> d]

IsLeap(y) == (y % 4 = 0 /\ y % 100 # 0) \/ y % 400 = 0

DaysInMonth(y, m) ==
    IF m = 2 THEN (IF IsLeap(y) THEN 29 ELSE 28)
    ELSE IF m \in {4, 6, 9, 11} THEN 30 ELSE 31

\* date.replace(...) raises ValueError unless the fields name a real day
IsValidDate(y, m, d) == m \in 1..12 /\ d \in 1..DaysInMonth(y, m)

\* d + timedelta(days=1)
NextDay(d) ==
    IF d.day < DaysInMonth(d.year, d.month) THEN Date(d.year, d.month, d.day + 1)
    ELSE IF d.month < 12 THEN Date(d.year, d.month + 1, 1)
    ELSE Date(d.year + 1, 1, 1)

\* d - timedelta(days=1)
PrevDay(d) ==
    IF d.day > 1 THEN Date(d.year, d.month, d.day - 1)
    ELSE IF d.month > 1 THEN Date(d.year, d.month - 1, DaysInMonth(d.year, d.month - 1))
    ELSE Date(d.year - 1, 12, 31)

\* d + timedelta(days=n)
RECURSIVE AddDays(_, _)
AddDays(d, n) == IF n = 0 THEN d ELSE AddDays(NextDay(d), n - 1)

\* d + timedelta(weeks=w)
AddWeeks(d, w) == AddDays(d, 7 * w)

\* the monthly step: replace(month=month+1), and on ValueError either
\* January of the next year or the day before the first of the next month
NextMonthly(d) ==
    IF IsValidDate(d.year, d.month + 1, d.day) THEN Date(d.year, d.month + 1, d.day)
    ELSE IF d.month = 12 THEN Date(d.year + 1, 1, d.day)
    ELSE PrevDay(Date(d.year, d.month + 1, 1))

\* the date of the next record
AdvanceDate(d, payments_per_year) ==
    IF payments_per_year = 12 THEN NextMonthly(d)
    ELSE IF payments_per_year = 26 THEN AddWeeks(d, 2)
    ELSE IF payments_per_year = 52 THEN AddWeeks(d, 1)
    ELSE d

Pad2(n) == IF n < 10 THEN "0" \o ToString(n) ELSE ToString(n)

\* d.strftime("%Y-%m-%d"), for four-digit years
Strftime(d) == ToString(d.year) \o "-" \o Pad2(d.month) \o "-" \o Pad2(d.day)

\* ------------------------------------------------------------------------
\* calculate_amortization_schedule
\* ------------------------------------------------------------------------

\* one entry of the schedule, with the keys the code gives it
Record(payment_num, current_date, payment, extra_payment, principal_payment, interest, balance) ==
    [k \in {"Payment #", "Date", "Payment", "Extra Payment", "Total Payment",
            "Principal", "Interest", "Balance"} |->
        CASE k = "Payment #"     -> payment_num
          [] k = "Date"          -> Strftime(current_date)
          [] k = "Payment"       -> Round2(payment)
          [] k = "Extra Payment" -> Round2(extra_payment)
          [] k = "Total Payment" -> Round2(Add(payment, extra_payment))
          [] k = "Principal"     -> Round2(principal_payment)
          [] k = "Interest"      -> Round2(interest)
          [] k = "Balance"       -> Max(Round2(balance), Zero)]

\* one pass through the body of the for loop; c holds the values fixed before
\* the loop, s the loop's variables, s.broke whether the loop has hit its break
LoopBody(c, s) ==
    IF s.broke THEN s
    ELSE LET interest          == Mul(s.balance, c.periodic_rate)
             principal_payment == Min(Sub(Add(c.payment, c.extra_payment), interest), s.balance)
             balance           == Sub(s.balance, principal_payment)
             current_date      == AdvanceDate(s.current_date, c.payments_per_year)
         IN  [payment_num  |-> s.payment_num + 1,
              balance      |-> balance,
              current_date |-> current_date,
              schedule     |-> Append(s.schedule,
                                   Record(s.payment_num, current_date, c.payment, c.extra_payment,
                                          principal_payment, interest, balance)),
              broke        |-> balance.m <= 0]

\* n passes through the body, one after the other, ending at the break
RECURSIVE Repeat(_, _, _)
Repeat(c, s, n) ==
    IF n <= 0 THEN s
    ELSE IF n = 1 THEN LoopBody(c, s)
    ELSE LET half == Repeat(c, s, n \div 2)
         IN  IF half.broke THEN half ELSE Repeat(c, half, n - n \div 2)

\* for payment_num in range(1, total_payments + 1): ...; the schedule it leaves
PaymentLoop(c, principal, now_date) ==
    Repeat(c, [payment_num |-> 1, balance |-> principal, current_date |-> now_date,
               schedule |-> << >>, broke |-> FALSE], c.total_payments).schedule

Raised(exception) == [outcome |-> exception, payment |-> Zero, schedule |-> << >>]

Returned(payment, schedule) == [outcome |-> "returned", payment |-> payment, schedule |-> schedule]

\* the payment of the closed-form formula, or the even split at a rate of 0;
\* dividing by zero raises ZeroDivisionError
ScheduledPayment(principal, periodic_rate, total_payments) ==
    IF periodic_rate.m > 0
    THEN LET growth == PowInt(Add(One, periodic_rate), total_payments)
             denom  == Sub(growth, One)
         IN  IF denom.m = 0 THEN Raised("ZeroDivisionError")
             ELSE Returned(Div(Mul(principal, Mul(periodic_rate, growth)), denom), << >>)
    ELSE IF total_payments = 0 THEN Raised("ZeroDivisionError")
         ELSE Returned(Div(principal, FromInt(total_payments)), << >>)

\* the whole function; now_date is what datetime.now().date() reads
calculate_amortization_schedule(principal, annual_rate, years, payments_per_year, extra_payment, now_date) ==
    IF payments_per_year = 0 THEN Raised("ZeroDivisionError")
    ELSE LET periodic_rate  == Div(Div(annual_rate, FromInt(100)), FromInt(payments_per_year))
             total_payments == years * payments_per_year
             p              == ScheduledPayment(principal, periodic_rate, total_payments)
             c              == [periodic_rate |-> periodic_rate, payment |-> p.payment,
                                extra_payment |-> extra_payment,
                                payments_per_year |-> payments_per_year,
                                total_payments |-> total_payments]
         IN  IF p.outcome # "returned" THEN p
             ELSE Returned(p.payment, PaymentLoop(c, principal, now_date))

\* ------------------------------------------------------------------------
\* The calculator page: inputs, wall clock, invocations
\* ------------------------------------------------------------------------

MaxYears == 2
MaxElapsedDays == 1

\* the arguments of one call; money is given in hundredths, the rate in percent
Loan(principal_cents, rate_percent, years, payments_per_year, extra_cents) ==
    [principal         |-> FromCents(principal_cents),
     annual_rate       |-> FromInt(rate_percent),
     years             |-> years,
     payments_per_year |-> payments_per_year,
     extra_payment     |-> FromCents(extra_cents)]

\* the payment frequencies of freq_map
Frequencies == {12, 26, 52}

\* everyday loans: 100.00 or 99.99 borrowed at 0% or 12%, with or without
\* an extra payment of 50.00
NormalLoans ==
    {Loan(P, r, y, f, x) : P \in {10000, 9999}, r \in {0, 12}, y \in 1..MaxYears,
                           f \in Frequencies, x \in {0, 5000}}

\* loans the contract admits whose rate is so high that (1+rate)^n exceeds
\* the mantissa: 1000.00 borrowed monthly at 7200% or 5200% a year
StressLoans ==
    {Loan(100000, 7200, 2, 12, 0), Loan(100000, 7200, 3, 12, 0), Loan(100000, 5200, 3, 12, 0)}

\* loans with one argument outside the contract
InvalidLoans ==
    {Loan(0, 12, 1, 12, 0), Loan(-10000, 12, 1, 12, 0), Loan(10000, 12, 0, 12, 0),
     Loan(10000, 0, 0, 12, 0), Loan(10000, 12, 1, 10, 0), Loan(10000, 12, 1, 0, 0),
     Loan(10000, -12, 1, 12, 0), Loan(10000, 12, 1, 12, -5000)}

Loans == NormalLoans \union StressLoans \union InvalidLoans

\* the days on which the page is first opened
StartDates == {Date(2023, 12, 15), Date(2024, 1, 31)}

NotCalled == [outcome |-> "none", payment |-> Zero, schedule |-> << >>]

VARIABLES
    today,      \* the wall-clock date, as datetime.now().date() reads it
    loan,       \* the arguments the page passes to the function
    result,     \* what the latest invocation returned or raised
    earlier,    \* what the invocation before it returned or raised
    start_date, \* the date the latest invocation read from the wall clock
    elapsed     \* days gone by since the page was opened

loanVars == <<today, loan, result, earlier, start_date, elapsed>>

\* ------------------------------------------------------------------------
\* The user store (sqlite table users) and the session gate
\* ------------------------------------------------------------------------

MaxRegisterCalls == 3

Sessions == {"s1", "s2"}
Usernames == {"ana", "ben"}
Passwords == {"pw1", "pw2"}

\* no row for a username; None in session_state
NoRow == "no row"
None == "None"

\* hashlib.sha256(password.encode()).hexdigest()
Sha256(password) == "sha256:" \o password

\* a session that runs no register_user call
Idle == [pc |-> "idle", username |-> None, hashed_password |-> None]

VARIABLES
    users,          \* the committed rows of table users: username -> password hash
    writer,         \* the connection that holds the database's write lock
    registering,    \* per session, the register_user call in progress
    returned,       \* the register_user calls that have returned, in order
    authenticated,  \* st.session_state.authenticated, per session
    username,       \* st.session_state.username, per session
    page,           \* the interface the session's latest script run rendered
    signin          \* per session, its latest authenticate_user call and result

authVars == <<users, writer, registering, returned, authenticated, username, page, signin>>

vars == <<today, loan, result, earlier, start_date, elapsed,
          users, writer, registering, returned, authenticated, username, page, signin>>

InitAuth ==
    /\ users = [u \in Usernames |-> NoRow]
    /\ writer = None
    /\ registering = [s \in Sessions |-> Idle]
    /\ returned = << >>
    /\ authenticated = [s \in Sessions |-> FALSE]
    /\ username = [s \in Sessions |-> None]
    /\ page = [s \in Sessions |-> "auth"]
    /\ signin = [s \in Sessions |-> [username |-> None, password |-> None, value |-> FALSE]]

\* the PRIMARY KEY on username: an INSERT of a username that has a row fails
NoPrimaryKey(table, u) == FALSE
PrimaryKeyViolation(table, u) == table[u] # NoRow

\* register_user calls begun so far
RegisterCalls == Len(returned) + Cardinality({s \in Sessions : registering[s].pc # "idle"})

\* "Create Account" with matching passwords: register_user is entered, the
\* connection opened and the password hashed
RegisterCall(s, u, p, confirm) ==
    /\ page[s] = "auth"
    /\ registering[s].pc = "idle"
    /\ RegisterCalls < MaxRegisterCalls
    /\ p = confirm
    /\ registering' = [registering EXCEPT ![s] =
                          [pc |-> "hashed", username |-> u, hashed_password |-> Sha256(p)]]
    /\ UNCHANGED <<users, writer, returned, authenticated, username, page, signin>>
    /\ UNCHANGED loanVars

\* "Create Account" with passwords that differ: an error message, no call
PasswordsDoNotMatch(s, u, p, confirm) ==
    /\ page[s] = "auth"
    /\ registering[s].pc = "idle"
    /\ p # confirm
    /\ UNCHANGED authVars
    /\ UNCHANGED loanVars

\* the INSERT: it waits for the write lock; on a primary key violation sqlite
\* raises IntegrityError, the transaction rolls back and the call returns False
RegisterInsert(s) ==
    /\ registering[s].pc = "hashed"
    /\ writer = None
    /\ IF PrimaryKeyViolation(users, registering[s].username)
       THEN /\ returned' = Append(returned, [username |-> registering[s].username,
                                             hashed_password |-> registering[s].hashed_password,
                                             value |-> FALSE])
            /\ registering' = [registering EXCEPT ![s] = Idle]
            /\ UNCHANGED writer
       ELSE /\ writer' = s
            /\ registering' = [registering EXCEPT ![s].pc = "inserted"]
            /\ UNCHANGED returned
    /\ UNCHANGED <<users, authenticated, username, page, signin>>
    /\ UNCHANGED loanVars

\* conn.commit() and return True: the row becomes visible, the lock is released
RegisterCommit(s) ==
    /\ registering[s].pc = "inserted"
    /\ users' = [users EXCEPT ![registering[s].username] = registering[s].hashed_password]
    /\ writer' = None
    /\ returned' = Append(returned, [username |-> registering[s].username,
                                     hashed_password |-> registering[s].hashed_password,
                                     value |-> TRUE])
    /\ registering' = [registering EXCEPT ![s] = Idle]
    /\ UNCHANGED <<authenticated, username, page, signin>>
    /\ UNCHANGED loanVars

\* SELECT username FROM users WHERE username = ? AND password = ?
authenticate_user(table, u, p) == table[u] = Sha256(p)

\* what "Sign In" leaves in session_state when authenticate_user returned True
SignedIn(session, u) == [authenticated |-> TRUE, username |-> u]

\* what "Logout" leaves in session_state
LogoutKeepsUsername(session) == [authenticated |-> FALSE, username |-> session.username]
LoggedOut(session) == [authenticated |-> FALSE, username |-> None]

\* the script's last lines: which interface a run renders
Rendered(flag) == IF ~flag THEN "auth" ELSE "main"

\* "Sign In" on the login form, and the rerun that follows a success
SignIn(s, u, p) ==
    /\ page[s] = "auth"
    /\ registering[s].pc = "idle"
    /\ LET value == authenticate_user(users, u, p)
           after == IF value
                    THEN SignedIn([authenticated |-> authenticated[s], username |-> username[s]], u)
                    ELSE [authenticated |-> authenticated[s], username |-> username[s]]
       IN  /\ signin' = [signin EXCEPT ![s] = [username |-> u, password |-> p, value |-> value]]
           /\ authenticated' = [authenticated EXCEPT ![s] = after.authenticated]
           /\ username' = [username EXCEPT ![s] = after.username]
           /\ page' = [page EXCEPT ![s] = IF value THEN Rendered(after.authenticated) ELSE "auth"]
    /\ UNCHANGED <<users, writer, registering, returned>>
    /\ UNCHANGED loanVars

\* "Logout" on the calculator page, and the rerun that follows
Logout(s) ==
    /\ page[s] = "main"
    /\ LET after == LoggedOut([authenticated |-> authenticated[s], username |-> username[s]])
       IN  /\ authenticated' = [authenticated EXCEPT ![s] = after.authenticated]
           /\ username' = [username EXCEPT ![s] = after.username]
           /\ page' = [page EXCEPT ![s] = Rendered(after.authenticated)]
    /\ UNCHANGED <<users, writer, registering, returned, signin>>
    /\ UNCHANGED loanVars

\* any other interaction reruns the script from the top
Rerun(s) ==
    /\ registering[s].pc = "idle"
    /\ page' = [page EXCEPT ![s] = Rendered(authenticated[s])]
    /\ UNCHANGED <<users, writer, registering, returned, authenticated, username, signin>>
    /\ UNCHANGED loanVars

\* ------------------------------------------------------------------------
\* The calculator page
\* ------------------------------------------------------------------------

InitLoan ==
    /\ today \in StartDates
    /\ loan \in Loans
    /\ result = NotCalled
    /\ earlier = NotCalled
    /\ start_date = today
    /\ elapsed = 0

\* main_application calls the function with the page's inputs
Calculate ==
    /\ result' = calculate_amortization_schedule(loan.principal, loan.annual_rate, loan.years,
                                                 loan.payments_per_year, loan.extra_payment, today)
    /\ earlier' = result
    /\ start_date' = today
    /\ UNCHANGED <<today, loan, elapsed>>
    /\ UNCHANGED authVars

\* midnight passes
Tick ==
    /\ elapsed < MaxElapsedDays
    /\ today' = NextDay(today)
    /\ elapsed' = elapsed + 1
    /\ UNCHANGED <<loan, result, earlier, start_date>>
    /\ UNCHANGED authVars

\* ------------------------------------------------------------------------
\* Specifications
\* ------------------------------------------------------------------------

\* the calculator: the function applied to every loan on every start date
Init == InitLoan /\ InitAuth

Next == Calculate \/ Tick

Spec == Init /\ [][Next]_vars

\* the store and the gate, with the calculator's inputs left alone
InitGate ==
    /\ InitAuth
    /\ today = Date(2024, 1, 31)
    /\ loan = Loan(10000, 12, 1, 12, 0)
    /\ result = NotCalled
    /\ earlier = NotCalled
    /\ start_date = today
    /\ elapsed = 0

NextAuth ==
    \/ \E s \in Sessions, u \in Usernames, p \in Passwords, confirm \in Passwords :
          RegisterCall(s, u, p, confirm)
    \/ \E s \in Sessions, u \in Usernames, p \in Passwords, confirm \in Passwords :
          PasswordsDoNotMatch(s, u, p, confirm)
    \/ \E s \in Sessions, u \in Usernames, p \in Passwords : SignIn(s, u, p)
    \/ \E s \in Sessions : RegisterInsert(s)
    \/ \E s \in Sessions : RegisterCommit(s)
    \/ \E s \in Sessions : Logout(s)
    \/ \E s \in Sessions : Rerun(s)

SpecAuth == InitGate /\ [][NextAuth]_vars

\* ------------------------------------------------------------------------
\* The schedule's contract
\* ------------------------------------------------------------------------

\* the constraints the contract puts on the arguments
ValidLoan ==
    /\ loan.principal.m > 0
    /\ loan.annual_rate.m >= 0
    /\ loan.years > 0
    /\ loan.payments_per_year \in Frequencies
    /\ loan.extra_payment.m >= 0

HasReturned == result.outcome = "returned"

Periods == loan.years * loan.payments_per_year

OneCent == FromCents(1)

AbsF(a) == IF a.m < 0 THEN Neg(a) ELSE a

LessEq(a, b) == ~Less(b, a)

\* the sum of the "Principal" fields of records lo..hi
RECURSIVE SumPrincipal(_, _, _)
SumPrincipal(schedule, lo, hi) ==
    IF lo > hi THEN Zero
    ELSE IF lo = hi THEN schedule[lo]["Principal"]
    ELSE LET mid == (lo + hi) \div 2
         IN  Add(SumPrincipal(schedule, lo, mid), SumPrincipal(schedule, mid + 1, hi))

\* k calendar months after d, one month at a time, each month keeping the day
\* of the month or clamping it to the month's last day: a day once clamped
\* stays clamped, so the day is the least of d's day and the lengths of the
\* months passed through
MonthsLater(d, k) ==
    LET Y(j)  == (d.year * 12 + (d.month - 1) + j) \div 12
        M(j)  == ((d.year * 12 + (d.month - 1) + j) % 12) + 1
        caps  == {d.day} \union {DaysInMonth(Y(j), M(j)) : j \in 1..k}
    IN  Date(Y(k), M(k), CHOOSE x \in caps : \A y \in caps : x <= y)

\* C1: for a valid loan the returned schedule has at most years *
\* payments_per_year records, and exactly that many when extra_payment is 0.
C1_ScheduleLength ==
    (ValidLoan /\ HasReturned) =>
        /\ Len(result.schedule) <= Periods
        /\ (loan.extra_payment.m = 0 => Len(result.schedule) = Periods)

\* C2: for a valid loan the last record of the returned schedule has a
\* "Balance" of exactly 0.
C2_FinalBalanceZero ==
    (ValidLoan /\ HasReturned) =>
        /\ result.schedule # << >>
        /\ result.schedule[Len(result.schedule)]["Balance"] = Zero

\* C3: for a valid loan no record has a negative "Balance", the first
\* record's "Balance" is at most the principal and every later record's
\* "Balance" is at most that of the record before it.
C3_BalanceNonIncreasing ==
    (ValidLoan /\ HasReturned) =>
        \A k \in DOMAIN result.schedule :
            /\ result.schedule[k]["Balance"].m >= 0
            /\ LessEq(result.schedule[k]["Balance"],
                      IF k = 1 THEN loan.principal ELSE result.schedule[k - 1]["Balance"])

\* C4: in every record of a valid loan's schedule "Total Payment" is the sum
\* of "Principal" and "Interest" (to the cent the rounding of the three
\* fields allows), also on the record whose principal was capped.
C4_TotalIsPrincipalPlusInterest ==
    (ValidLoan /\ HasReturned) =>
        \A k \in DOMAIN result.schedule :
            LessEq(AbsF(Sub(result.schedule[k]["Total Payment"],
                            Add(result.schedule[k]["Principal"], result.schedule[k]["Interest"]))),
                   OneCent)

\* C5: with monthly payments the k-th record is due k calendar months after
\* the start date, each month keeping the day of the month or clamping it to
\* the month's last day, so that the due dates never repeat.
C5_MonthlyDueDates ==
    (ValidLoan /\ HasReturned /\ loan.payments_per_year = 12) =>
        \A k \in DOMAIN result.schedule :
            /\ result.schedule[k]["Date"] = Strftime(MonthsLater(start_date, k))
            /\ k > 1 => result.schedule[k]["Date"] # result.schedule[k - 1]["Date"]

\* C6: a call whose arguments violate a constraint fails with
\* InvalidParameterError and returns no schedule.
C6_InvalidParameterError ==
    (~ValidLoan /\ result.outcome # "none") =>
        /\ result.outcome = "InvalidParameterError"
        /\ result.schedule = << >>

\* C7: two invocations with the same valid arguments return the same payment and
\* the same schedule, dates included, whatever the wall-clock date of each.
C7_ReferentiallyTransparent ==
    (ValidLoan /\ earlier.outcome = "returned" /\ HasReturned) =>
        /\ earlier.payment = result.payment
        /\ earlier.schedule = result.schedule

\* C8: for a valid loan the "Principal" fields of the whole schedule add up
\* to the principal, within one cent per record.
C8_PrincipalConserved ==
    (ValidLoan /\ HasReturned) =>
        LessEq(AbsF(Sub(SumPrincipal(result.schedule, 1, Len(result.schedule)), loan.principal)),
               Mul(FromInt(Len(result.schedule)), OneCent))

\* ------------------------------------------------------------------------
\* Registration and the session gate
\* ------------------------------------------------------------------------

\* the returned register_user calls for username u that returned True
Successes(u) == {i \in DOMAIN returned : returned[i].username = u /\ returned[i].value}

C10_SessionGate ==
    \A s \in Sessions :
        /\ authenticated[s] <=> (username[s] # None)
        /\ authenticated[s] => (signin[s].value /\ signin[s].username = username[s]
                                /\ authenticate_user(users, username[s], signin[s].password))
        /\ page[s] = "main" => authenticated[s]

\* one session is signed in and sees the calculator while another has signed
\* in and logged out again
C10_Witness ==
    \E s, t \in Sessions :
        /\ authenticated[s] /\ username[s] # None /\ page[s] = "main"
        /\ ~authenticated[t] /\ username[t] = None /\ page[t] = "auth" /\ signin[t].value
====
